---- MODULE Spec2Model ----
(***************************************************************************)
(* A model of install.py, the Horilla HRMS installer: main, the            *)
(* HorillaInstaller constructor, parameter acquisition (saved              *)
(* configuration, interactive prompts, validators) and the seven-phase     *)
(* provisioning pipeline of HorillaInstaller.install.                      *)
(*                                                                         *)
(* The installer is one sequential process.  Its environment is the        *)
(* command line, the effective user id, whether standard input is a        *)
(* terminal, the saved configuration file, the lines the operator types,   *)
(* the exit status of every external command and the success of every      *)
(* file operation.  The environment's choices are drawn from small sets.   *)
(***************************************************************************)
EXTENDS Integers, Sequences, FiniteSets, TLC

(***************************************************************************)
(* Strings.  A parameter value is a TLA+ string; the validators inspect    *)
(* its characters, which Chars gives as a sequence of one-character        *)
(* strings.  StringPool is the finite universe of the values that the      *)
(* model's inputs are drawn from.                                          *)
(***************************************************************************)
CharTable ==
    "" :> <<>>
    @@ "hrms.example.com" :> <<"h","r","m","s",".","e","x","a","m","p","l","e",".","c","o","m">>
    @@ "hr.cached.org" :> <<"h","r",".","c","a","c","h","e","d",".","o","r","g">>
    @@ "10.0.0.1.nip.io" :> <<"1","0",".","0",".","0",".","1",".","n","i","p",".","i","o">>
    @@ "hrms_example" :> <<"h","r","m","s","_","e","x","a","m","p","l","e">>
    @@ "127.0.0.1" :> <<"1","2","7",".","0",".","0",".","1">>
    @@ "203.0.113.7" :> <<"2","0","3",".","0",".","1","1","3",".","7">>
    @@ "horilla.127.0.0.1.nip.io" :> <<"h","o","r","i","l","l","a",".","1","2","7",".","0",".","0",".","1",".","n","i","p",".","i","o">>
    @@ "horilla.203.0.113.7.nip.io" :> <<"h","o","r","i","l","l","a",".","2","0","3",".","0",".","1","1","3",".","7",".","n","i","p",".","i","o">>
    @@ "admin@example.com" :> <<"a","d","m","i","n","@","e","x","a","m","p","l","e",".","c","o","m">>
    @@ "ops@example.org" :> <<"o","p","s","@","e","x","a","m","p","l","e",".","o","r","g">>
    @@ "hr@cached.org" :> <<"h","r","@","c","a","c","h","e","d",".","o","r","g">>
    @@ "ops@" :> <<"o","p","s","@">>
    @@ "ops@192.168.1.10" :> <<"o","p","s","@","1","9","2",".","1","6","8",".","1",".","1","0">>
    @@ "us-east-1" :> <<"u","s","-","e","a","s","t","-","1">>
    @@ "eu-west-1" :> <<"e","u","-","w","e","s","t","-","1">>
    @@ "ap-northeast-1" :> <<"a","p","-","n","o","r","t","h","e","a","s","t","-","1">>
    @@ "Tokyo" :> <<"T","o","k","y","o">>
    @@ "nowhere" :> <<"n","o","w","h","e","r","e">>
    @@ "swift.example.com" :> <<"s","w","i","f","t",".","e","x","a","m","p","l","e",".","c","o","m">>
    @@ ".nip.io" :> <<".","n","i","p",".","i","o">>
    @@ "horilla." :> <<"h","o","r","i","l","l","a",".">>
    @@ "us-east-2" :> <<"u","s","-","e","a","s","t","-","2">>
    @@ "us-west-1" :> <<"u","s","-","w","e","s","t","-","1">>
    @@ "us-west-2" :> <<"u","s","-","w","e","s","t","-","2">>
    @@ "af-south-1" :> <<"a","f","-","s","o","u","t","h","-","1">>
    @@ "ap-east-1" :> <<"a","p","-","e","a","s","t","-","1">>
    @@ "ap-south-1" :> <<"a","p","-","s","o","u","t","h","-","1">>
    @@ "ap-northeast-2" :> <<"a","p","-","n","o","r","t","h","e","a","s","t","-","2">>
    @@ "ap-northeast-3" :> <<"a","p","-","n","o","r","t","h","e","a","s","t","-","3">>
    @@ "ap-southeast-1" :> <<"a","p","-","s","o","u","t","h","e","a","s","t","-","1">>
    @@ "ap-southeast-2" :> <<"a","p","-","s","o","u","t","h","e","a","s","t","-","2">>
    @@ "ca-central-1" :> <<"c","a","-","c","e","n","t","r","a","l","-","1">>
    @@ "eu-central-1" :> <<"e","u","-","c","e","n","t","r","a","l","-","1">>
    @@ "eu-west-2" :> <<"e","u","-","w","e","s","t","-","2">>
    @@ "eu-west-3" :> <<"e","u","-","w","e","s","t","-","3">>
    @@ "eu-south-1" :> <<"e","u","-","s","o","u","t","h","-","1">>
    @@ "eu-north-1" :> <<"e","u","-","n","o","r","t","h","-","1">>
    @@ "me-south-1" :> <<"m","e","-","s","o","u","t","h","-","1">>
    @@ "sa-east-1" :> <<"s","a","-","e","a","s","t","-","1">>
    @@ "EU-WEST-1" :> <<"E","U","-","W","E","S","T","-","1">>
    @@ "yes" :> <<"y","e","s">>
    @@ "Y" :> <<"Y">>
    @@ "y" :> <<"y">>
    @@ "no" :> <<"n","o">>
    @@ "1" :> <<"1">>
    @@ "3" :> <<"3">>
    @@ "9" :> <<"9">>
    @@ "6" :> <<"6">>
    @@ "/opt/horilla" :> <<"/","o","p","t","/","h","o","r","i","l","l","a">>
    @@ "/srv/horilla" :> <<"/","s","r","v","/","h","o","r","i","l","l","a">>
    @@ "/opt/cached" :> <<"/","o","p","t","/","c","a","c","h","e","d">>
    @@ "/backups/backup.sh" :> <<"/","b","a","c","k","u","p","s","/","b","a","c","k","u","p",".","s","h">>
    @@ " >> " :> <<" ",">",">"," ">>
    @@ "/backups/backup.log 2>&1" :> <<"/","b","a","c","k","u","p","s","/","b","a","c","k","u","p",".","l","o","g"," ","2",">","&","1">>
    @@ "0 2 * * *" :> <<"0"," ","2"," ","*"," ","*"," ","*">>
    @@ "0 2 * * 0" :> <<"0"," ","2"," ","*"," ","*"," ","0">>
    @@ "0 2 1 * *" :> <<"0"," ","2"," ","1"," ","*"," ","*">>
    @@ "0 5 * * * /usr/local/bin/report.sh" :> <<"0"," ","5"," ","*"," ","*"," ","*"," ","/","u","s","r","/","l","o","c","a","l","/","b","i","n","/","r","e","p","o","r","t",".","s","h">>
    @@ "0 3 * * * /data" :> <<"0"," ","3"," ","*"," ","*"," ","*"," ","/","d","a","t","a">>
    @@ "more" :> <<"m","o","r","e">>
    @@ "27" :> <<"2","7">>
    @@ "36" :> <<"3","6">>

StringPool == DOMAIN CharTable

Chars(s) == CharTable[s]

\* The string of the pool that spells cs (the result of a concatenation).
Intern(cs) == CHOOSE s \in StringPool : CharTable[s] = cs

Lower == {"a","b","c","d","e","f","g","h","i","j","k","l","m","n","o","p","q","r","s","t","u","v","w","x","y","z"}

Upper == {"A","B","C","D","E","F","G","H","I","J","K","L","M","N","O","P","Q","R","S","T","U","V","W","X","Y","Z"}

Digit == {"0","1","2","3","4","5","6","7","8","9"}

AlNum == Lower \cup Upper \cup Digit

UpperOf ==
    "a" :> "A" @@ "b" :> "B" @@ "c" :> "C" @@ "d" :> "D" @@ "e" :> "E" @@ "f" :> "F"
    @@ "g" :> "G" @@ "h" :> "H" @@ "i" :> "I" @@ "j" :> "J" @@ "k" :> "K" @@ "l" :> "L"
    @@ "m" :> "M" @@ "n" :> "N" @@ "o" :> "O" @@ "p" :> "P" @@ "q" :> "Q" @@ "r" :> "R"
    @@ "s" :> "S" @@ "t" :> "T" @@ "u" :> "U" @@ "v" :> "V" @@ "w" :> "W" @@ "x" :> "X"
    @@ "y" :> "Y" @@ "z" :> "Z"

LowerOf ==
    "A" :> "a" @@ "B" :> "b" @@ "C" :> "c" @@ "D" :> "d" @@ "E" :> "e" @@ "F" :> "f"
    @@ "G" :> "g" @@ "H" :> "h" @@ "I" :> "i" @@ "J" :> "j" @@ "K" :> "k" @@ "L" :> "l"
    @@ "M" :> "m" @@ "N" :> "n" @@ "O" :> "o" @@ "P" :> "p" @@ "Q" :> "q" @@ "R" :> "r"
    @@ "S" :> "s" @@ "T" :> "t" @@ "U" :> "u" @@ "V" :> "v" @@ "W" :> "w" @@ "X" :> "x"
    @@ "Y" :> "y" @@ "Z" :> "z"

DigitValue ==
    "0" :> 0 @@ "1" :> 1 @@ "2" :> 2 @@ "3" :> 3 @@ "4" :> 4
    @@ "5" :> 5 @@ "6" :> 6 @@ "7" :> 7 @@ "8" :> 8 @@ "9" :> 9

\* str.upper() and str.lower() on a character sequence.
ToUpper(cs) == [i \in 1..Len(cs) |-> IF cs[i] \in Lower THEN UpperOf[cs[i]] ELSE cs[i]]

ToLower(cs) == [i \in 1..Len(cs) |-> IF cs[i] \in Upper THEN LowerOf[cs[i]] ELSE cs[i]]

\* str.endswith(suffix)
EndsWith(cs, suffix) ==
    /\ Len(cs) >= Len(suffix)
    /\ SubSeq(cs, Len(cs) - Len(suffix) + 1, Len(cs)) = suffix

\* The index of the first occurrence of sub in cs, 0 when there is none.
FindFirst(cs, sub) ==
    LET hits == {i \in 1..(Len(cs) - Len(sub) + 1) : SubSeq(cs, i, i + Len(sub) - 1) = sub}
    IN IF hits = {} THEN 0 ELSE CHOOSE i \in hits : \A j \in hits : i <= j

\* str.split(sep)[0]: the text before the first occurrence of sep.
SplitFirst(cs, sep) ==
    LET at == FindFirst(cs, sep)
    IN IF at = 0 THEN cs ELSE SubSeq(cs, 1, at - 1)

\* str.split(c) for a one-character separator: "a..b" gives "a", "", "b".
RECURSIVE SplitChar(_, _)
SplitChar(cs, c) ==
    LET at == FindFirst(cs, <<c>>)
    IN IF at = 0 THEN <<cs>>
       ELSE <<SubSeq(cs, 1, at - 1)>> \o SplitChar(SubSeq(cs, at + 1, Len(cs)), c)

\* int(text) succeeds: an optional sign, then digits, single underscores
\* allowed between digits.
IsPyInt(cs) ==
    LET body == IF Len(cs) > 0 /\ cs[1] \in {"+", "-"} THEN Tail(cs) ELSE cs
    IN /\ Len(body) > 0
       /\ \A i \in 1..Len(body) : body[i] \in Digit \cup {"_"}
       /\ body[1] \in Digit /\ body[Len(body)] \in Digit
       /\ \A i \in 1..(Len(body) - 1) : ~(body[i] = "_" /\ body[i + 1] = "_")

RECURSIVE DigitsValue(_)
DigitsValue(ds) ==
    IF ds = <<>> THEN 0
    ELSE 10 * DigitsValue(SubSeq(ds, 1, Len(ds) - 1)) + DigitValue[ds[Len(ds)]]

\* int(text) for a text IsPyInt accepts.
PyInt(cs) ==
    LET neg  == cs[1] = "-"
        body == IF cs[1] \in {"+", "-"} THEN Tail(cs) ELSE cs
        mag  == DigitsValue(SelectSeq(body, LAMBDA ch : ch \in Digit))
    IN IF neg THEN 0 - mag ELSE mag

(***************************************************************************)
(* The validators.                                                         *)
(***************************************************************************)
NIP_IO == <<".","n","i","p",".","i","o">>

\* One label of the hostname grammar, [a-zA-Z0-9](?:[a-zA-Z0-9-]{0,61}[a-zA-Z0-9])?
IsLabel(l) ==
    /\ Len(l) \in 1..63
    /\ l[1] \in AlNum /\ l[Len(l)] \in AlNum
    /\ \A i \in 1..Len(l) : l[i] \in AlNum \cup {"-"}

\* The last label, [a-zA-Z0-9][a-zA-Z0-9-]{0,61}[a-zA-Z0-9]: two characters at least.
IsLastLabel(l) == IsLabel(l) /\ Len(l) >= 2

\* re.match(domain_pattern, domain): one or more labels, each followed by a
\* dot, then the last label.
MatchesDomainPattern(cs) ==
    LET labels == SplitChar(cs, ".")
    IN /\ Len(labels) >= 2
       /\ \A i \in 1..(Len(labels) - 1) : IsLabel(labels[i])
       /\ IsLastLabel(labels[Len(labels)])

\* validate_domain on a character sequence.
ValidateDomainChars(cs) ==
    IF EndsWith(cs, NIP_IO)
    THEN LET ip_part == SplitFirst(cs, NIP_IO)
             octets  == SplitChar(ip_part, ".")
         IN /\ Len(octets) = 4
            /\ \A i \in 1..4 : /\ IsPyInt(octets[i])
                               /\ PyInt(octets[i]) >= 0
                               /\ PyInt(octets[i]) <= 255
    ELSE MatchesDomainPattern(cs)

validate_domain(domain) == ValidateDomainChars(Chars(domain))

\* re.match(email_pattern, email): [a-zA-Z0-9._%+-]+ @ [a-zA-Z0-9.-]+ \. [a-zA-Z]{2,}
MatchesEmailPattern(cs) ==
    LET at == FindFirst(cs, <<"@">>)
        local == SubSeq(cs, 1, at - 1)
        rest  == SubSeq(cs, at + 1, Len(cs))
        parts == SplitChar(rest, ".")
        tld   == parts[Len(parts)]
    IN /\ at > 1
       /\ \A i \in 1..Len(local) : local[i] \in AlNum \cup {".", "_", "%", "+", "-"}
       /\ \A i \in 1..Len(rest) : rest[i] \in AlNum \cup {".", "-"}
       /\ Len(parts) >= 2
       /\ Len(rest) - Len(tld) - 1 >= 1
       /\ Len(tld) >= 2
       /\ \A i \in 1..Len(tld) : tld[i] \in Lower \cup Upper

\* validate_email on a character sequence: the pattern, then validate_domain
\* on the part after the "@".
ValidateEmailChars(cs) ==
    /\ MatchesEmailPattern(cs)
    /\ LET parts == SplitChar(cs, "@")
       IN /\ Len(parts) = 2 /\ parts[1] # <<>> /\ parts[2] # <<>>
          /\ ValidateDomainChars(parts[2])

validate_email(email) == ValidateEmailChars(Chars(email))

\* re.match(region_pattern, region): ^[a-z]{2}-[a-z]+-[0-9]+$
MatchesRegionPattern(cs) ==
    LET parts == SplitChar(cs, "-")
    IN /\ Len(parts) = 3
       /\ Len(parts[1]) = 2 /\ \A i \in 1..2 : parts[1][i] \in Lower
       /\ Len(parts[2]) >= 1 /\ \A i \in 1..Len(parts[2]) : parts[2][i] \in Lower
       /\ Len(parts[3]) >= 1 /\ \A i \in 1..Len(parts[3]) : parts[3][i] \in Digit

\* A corrections table one of whose entries names another alias instead of a
\* region.
corrections_to_an_alias ==
    { <<<<"T","O","K","Y","O">>, "Tokyo">>,
      <<<<"E","U">>, "eu-west-1">> }

\* The corrections table of validate_s3_region: <<input in upper case, region>>.
corrections ==
    { <<<<"U","S","1">>, "us-east-1">>,
      <<<<"U","S","2">>, "us-east-2">>,
      <<<<"U","S","W","1">>, "us-west-1">>,
      <<<<"U","S","W","2">>, "us-west-2">>,
      <<<<"E","U">>, "eu-west-1">>,
      <<<<"E","U","1">>, "eu-west-1">>,
      <<<<"E","U","2">>, "eu-central-1">>,
      <<<<"A","P">>, "ap-southeast-1">>,
      <<<<"A","P","1">>, "ap-southeast-1">>,
      <<<<"T","O","K","Y","O">>, "ap-northeast-1">>,
      <<<<"J","A","P","A","N">>, "ap-northeast-1">>,
      <<<<"F","R","A","N","K","F","U","R","T">>, "eu-central-1">>,
      <<<<"I","R","E","L","A","N","D">>, "eu-west-1">>,
      <<<<"O","R","E","G","O","N">>, "us-west-2">>,
      <<<<"V","I","R","G","I","N","I","A">>, "us-east-1">>,
      <<<<"O","H","I","O">>, "us-east-2">>,
      <<<<"C","A","L","I","F","O","R","N","I","A">>, "us-west-1">>,
      <<<<"S","I","N","G","A","P","O","R","E">>, "ap-southeast-1">>,
      <<<<"M","U","M","B","A","I">>, "ap-south-1">>,
      <<<<"I","N","D","I","A">>, "ap-south-1">> }

valid_aws_regions ==
    { "us-east-1", "us-east-2", "us-west-1", "us-west-2",
      "af-south-1", "ap-east-1", "ap-south-1", "ap-northeast-1",
      "ap-northeast-2", "ap-northeast-3", "ap-southeast-1", "ap-southeast-2",
      "ca-central-1", "eu-central-1", "eu-west-1", "eu-west-2",
      "eu-west-3", "eu-south-1", "eu-north-1", "me-south-1",
      "sa-east-1" }

\* validate_s3_region(region): what it returns and what it leaves in
\* self.s3_region.  It returns True on every path.
validate_s3_region(region) ==
    LET cs == Chars(region)
        fix == {c \in corrections : c[1] = ToUpper(cs)}
        same == {v \in valid_aws_regions : ToLower(cs) = ToLower(Chars(v))}
    IN IF MatchesRegionPattern(cs) THEN [ok |-> TRUE, s3_region |-> region, how |-> "pattern"]
       ELSE IF fix # {} THEN [ok |-> TRUE, s3_region |-> (CHOOSE c \in fix : TRUE)[2], how |-> "corrected"]
       ELSE IF same # {} THEN [ok |-> TRUE, s3_region |-> CHOOSE v \in same : TRUE, how |-> "listed"]
       ELSE [ok |-> TRUE, s3_region |-> "us-east-1", how |-> "fallback"]

(***************************************************************************)
(* Bounds of the model.                                                    *)
(***************************************************************************)
\* A nominal run is started as root from a terminal with no options and no
\* saved configuration; its operator accepts the defaults offered (typing a
\* domain where none is acceptable), answers the backup questions with
\* values that pass validate_backup_settings and confirms the region with a
\* bare Enter; every command and file operation succeeds, and nobody
\* interrupts.  A run of the model departs from a nominal one in at most
\* MaxDeviations places: an option or a flag given, a host that is not the
\* nominal one, a saved configuration, another line typed, a command that
\* fails, a file operation that raises, an interrupt.
MaxDeviations == 2

(***************************************************************************)
(* The state.                                                              *)
(***************************************************************************)
VARIABLES
    cmdline,    \* the command line: the flags and the valued options given
    host,       \* os.geteuid() = 0, sys.stdin.isatty()
    saved,      \* /tmp/horilla_install_config.json: NoFile, or exists and its keys
    self,       \* the HorillaInstaller's fields
    pc,         \* where the process is
    step,       \* index in install()'s list of steps
    cmds,       \* the call sites of run_command executed so far, in order
    failed,     \* the call sites whose command did not exit with status 0
    subprocess, \* how the subprocess of each of those ended: <<call site, outcome>>
    writes,     \* the artifacts written so far, in order
    files,      \* what each artifact holds
    crontab,    \* root's crontab: as crontab -l gave it, then as the run left it
    prompts,    \* the reads of standard input: <<input() call site, line read>>
    steps,      \* the phases install() has invoked, with what each returned
    result,     \* what install() returned: "none" while it has not
    exit_code,  \* the process's exit status, NoExit while it runs
    sigint,     \* whether __init__ has installed _signal_handler
    budget      \* the deviations the run may still make

vars == <<cmdline, host, saved, self, pc, step, cmds, failed, subprocess, writes, files, crontab,
          prompts, steps, result, exit_code, sigint, budget>>

None == "<None>"

NoFile == [exists |-> FALSE]

NoExit == -1

\* The elements of a sequence.
Range(seq) == {seq[i] : i \in 1..Len(seq)}

\* Python's truth value of a str-or-None.
Truthy(s) == s \notin {None, ""}

\* Python's  a or b  on str-or-None values.
Or(a, b) == IF Truthy(a) THEN a ELSE b

(***************************************************************************)
(* parse_args: the namespace argparse builds from the command line.        *)
(***************************************************************************)
Flags == {"non_interactive", "force_continue", "force_no_ssl", "skip_root_check"}

ValuedOptions ==
    {"domain", "admin_username", "admin_password", "email", "install_dir",
     "enable_backups", "s3_provider", "s3_access_key", "s3_secret_key",
     "s3_region", "s3_bucket_name", "backup_frequency"}

\* The default of each valued option (add_argument's default=, None without one).
ArgDefault ==
    [domain |-> None, admin_username |-> "admin", admin_password |-> "Admin@123",
     email |-> "admin@example.com", install_dir |-> "/opt/horilla",
     enable_backups |-> "no", s3_provider |-> None, s3_access_key |-> None,
     s3_secret_key |-> None, s3_region |-> "us-east-1", s3_bucket_name |-> None,
     backup_frequency |-> "1"]

parse_args(cl) ==
    [o \in ValuedOptions |-> IF o \in DOMAIN cl.opts THEN cl.opts[o] ELSE ArgDefault[o]]
    @@ [f \in Flags |-> f \in cl.flags]

\* main: a standard input that is no terminal turns on non_interactive and
\* force_continue.
MainArgs(cl, stdin_tty) ==
    LET args == parse_args(cl)
    IN IF ~stdin_tty
       THEN [args EXCEPT !.non_interactive = TRUE, !.force_continue = TRUE]
       ELSE args

(***************************************************************************)
(* HorillaInstaller.__init__ and load_saved_config.                        *)
(***************************************************************************)
\* The field assignments of __init__ (hasattr(args, ...) is true of every
\* option parse_args declares).  is_tty and skip_upgrade are set and never read.
InitFields(args) ==
    [domain |-> args.domain,
     admin_username |-> args.admin_username,
     admin_password |-> args.admin_password,
     email |-> args.email,
     install_dir |-> args.install_dir,
     force_continue |-> args.force_continue,
     force_no_ssl |-> args.force_no_ssl,
     non_interactive |-> args.non_interactive,
     skip_root_check |-> args.skip_root_check,
     enable_backups |-> (ToLower(Chars(args.enable_backups)) = Chars("yes")),
     s3_provider |-> args.s3_provider,
     s3_access_key |-> args.s3_access_key,
     s3_secret_key |-> args.s3_secret_key,
     s3_region |-> args.s3_region,
     s3_bucket_name |-> args.s3_bucket_name,
     backup_frequency |-> args.backup_frequency]

\* load_saved_config: a saved key replaces a field that still holds its default.
load_saved_config(s, config) ==
    IF ~config.exists THEN s
    ELSE LET has(k) == k \in DOMAIN config
         IN [s EXCEPT
             !.domain = IF s.domain = None /\ has("domain") THEN config.domain ELSE @,
             !.email = IF has("email") /\ s.email = "admin@example.com" THEN config.email ELSE @,
             !.admin_username =
                 IF has("admin_username") /\ s.admin_username = "admin"
                 THEN config.admin_username ELSE @,
             !.admin_password =
                 IF has("admin_password") /\ s.admin_password = "Admin@123"
                 THEN config.admin_password ELSE @,
             !.install_dir =
                 IF has("install_dir") /\ s.install_dir = "/opt/horilla"
                 THEN config.install_dir ELSE @,
             !.enable_backups =
                 IF ~s.enable_backups /\ has("enable_backups")
                 THEN config.enable_backups ELSE @,
             !.s3_provider =
                 IF has("s3_provider") /\ s.s3_provider = "1" THEN config.s3_provider ELSE @,
             !.s3_access_key =
                 IF has("s3_access_key") /\ ~Truthy(s.s3_access_key)
                 THEN config.s3_access_key ELSE @,
             !.s3_secret_key =
                 IF has("s3_secret_key") /\ ~Truthy(s.s3_secret_key)
                 THEN config.s3_secret_key ELSE @,
             !.s3_region =
                 IF has("s3_region") /\ s.s3_region = "us-east-1" THEN config.s3_region ELSE @,
             !.s3_bucket_name =
                 IF has("s3_bucket_name") /\ ~Truthy(s.s3_bucket_name)
                 THEN config.s3_bucket_name ELSE @,
             !.backup_frequency =
                 IF has("backup_frequency") /\ s.backup_frequency = "1"
                 THEN config.backup_frequency ELSE @]

\* save_config: the twelve keys written to the saved configuration file.
save_config(s) ==
    [exists |-> TRUE, domain |-> s.domain, email |-> s.email, admin_username |-> s.admin_username,
     admin_password |-> s.admin_password, install_dir |-> s.install_dir,
     enable_backups |-> s.enable_backups, s3_provider |-> s.s3_provider,
     s3_access_key |-> s.s3_access_key, s3_secret_key |-> s.s3_secret_key,
     s3_region |-> s.s3_region, s3_bucket_name |-> s.s3_bucket_name,
     backup_frequency |-> s.backup_frequency]

(***************************************************************************)
(* The environment's choices.                                              *)
(***************************************************************************)
\* What the operator may type at each prompt ("" is a bare Enter).
DomainLines == {"", "hrms.example.com", "10.0.0.1.nip.io", "hrms_example"}

EmailLines == {"", "ops@example.org", "ops@", "ops@192.168.1.10"}

AdminUsernameLines == {"", "hradmin"}

AdminPasswordLines == {"", "S3cure#pw"}

InstallDirLines == {"", "/srv/horilla"}

EnableBackupsLines == {"", "Y"}

ProviderLines == {"", "3", "9", "more", "6"}

MoreProviderLines == {"", "27"}

AccessKeyLines == {"", "AKIAEXAMPLE"}

SecretKeyLines == {"", "wJalrEXAMPLE"}

RegionLines == {"", "Tokyo", "nowhere", "EU-WEST-1"}

EndpointLines == {"", "swift.example.com"}

BucketLines == {"", "hr-backups"}

FrequencyLines == {"", "2", "daily", "weekly"}

\* What each valued option may be given as on the command line.
OptionValues ==
    [domain |-> {"hrms.example.com", "10.0.0.1.nip.io", "hrms_example"},
     admin_username |-> {"hradmin", "admin"},
     admin_password |-> {"S3cure#pw"},
     email |-> {"ops@example.org", "admin@example.com"},
     install_dir |-> {"/srv/horilla"},
     enable_backups |-> {"yes", "no"},
     s3_provider |-> {"1", "3"},
     s3_access_key |-> {"AKIAEXAMPLE"},
     s3_secret_key |-> {"wJalrEXAMPLE"},
     s3_region |-> {"eu-west-1"},
     s3_bucket_name |-> {"hr-backups"},
     backup_frequency |-> {"2", "daily"}]

\* A command line that gives every valued option.
AllOptions ==
    [domain |-> "hrms.example.com", admin_username |-> "hradmin",
     admin_password |-> "S3cure#pw", email |-> "ops@example.org",
     install_dir |-> "/srv/horilla", enable_backups |-> "yes", s3_provider |-> "3",
     s3_access_key |-> "AKIAEXAMPLE", s3_secret_key |-> "wJalrEXAMPLE",
     s3_region |-> "eu-west-1", s3_bucket_name |-> "hr-backups",
     backup_frequency |-> "daily"]

\* The command lines with flags among fs and at most n valued options, or
\* all of them.
CommandLines(n, fs) ==
    LET given == {g \in SUBSET ValuedOptions : Cardinality(g) <= n}
        opts == UNION {[g -> UNION {OptionValues[o] : o \in ValuedOptions}] : g \in given}
    IN {[flags |-> f, opts |-> v] :
          f \in SUBSET fs,
          v \in {w \in opts : \A o \in DOMAIN w : w[o] \in OptionValues[o]}
                 \cup {AllOptions}}

\* The saved configuration a previous run left behind (save_config writes all
\* twelve keys; the domain and the email it saves have passed validation).
SavedFiles ==
    {[exists |-> TRUE, domain |-> "hr.cached.org", email |-> "hr@cached.org",
      admin_username |-> "cached_admin", admin_password |-> "cached_pw",
      install_dir |-> "/opt/cached", enable_backups |-> e, s3_provider |-> "2",
      s3_access_key |-> "CACHEDKEY", s3_secret_key |-> "CACHEDSECRET",
      s3_region |-> "ap-south-1", s3_bucket_name |-> "cached-bucket",
      backup_frequency |-> "3"] : e \in BOOLEAN}

\* The files the installer generates.
Artifacts ==
    {"env", "compose", "dockerfile", "app_conf", "nginx_site", "rclone_conf",
     "backup_script", "cron_file"}

(***************************************************************************)
(* Initial states: the process has parsed its command line (main) and      *)
(* __init__ has assigned the installer's fields from it.                   *)
(***************************************************************************)
\* The deviations a run starts with (AllOptions counts as one).
StartCost(cl, h, file) ==
    Cardinality(cl.flags)
    + (IF cl.opts = AllOptions THEN 1 ELSE Cardinality(DOMAIN cl.opts))
    + (IF h.euid_root THEN 0 ELSE 1) + (IF h.stdin_tty THEN 0 ELSE 1)
    + (IF file.exists THEN 1 ELSE 0)

Hosts == [euid_root : BOOLEAN, stdin_tty : BOOLEAN]

Init ==
    /\ cmdline \in CommandLines(MaxDeviations, Flags)
    /\ host \in Hosts
    /\ saved \in {NoFile} \cup SavedFiles
    /\ StartCost(cmdline, host, saved) <= MaxDeviations
    /\ budget = MaxDeviations - StartCost(cmdline, host, saved)
    /\ self = InitFields(MainArgs(cmdline, host.stdin_tty))
    /\ pc = "init"
    /\ step = 0
    /\ cmds = <<>>
    /\ failed = {}
    /\ subprocess = {}
    /\ writes = <<>>
    /\ files = [a \in Artifacts |-> <<>>]
    /\ crontab = <<>>
    /\ prompts = {}
    /\ steps = <<>>
    /\ result = "none"
    /\ exit_code = NoExit
    /\ sigint = FALSE

(***************************************************************************)
(* run_command.                                                            *)
(***************************************************************************)
\* The ways the subprocess of a command can end: it exits with status 0 or
\* with another status, it outlives the timeout, its executable is not
\* found, or starting or waiting for it raises another error.
SubprocessOutcomes == {"exit_0", "exit_nonzero", "timeout", "not_found", "error"}

\* A run_command without its except clause for TimeoutExpired: the subprocess
\* is not killed and the exception leaves it.
run_command_without_timeout_clause(outcome) ==
    IF outcome = "timeout"
    THEN [success |-> FALSE, output |-> "", killed |-> FALSE, raised |-> TRUE]
    ELSE [success |-> outcome = "exit_0", output |-> "stdout+stderr", killed |-> FALSE,
          raised |-> FALSE]

\* run_command: what it hands its caller for each way the subprocess ends.
\* success is process.returncode == 0 on the path where communicate()
\* returns; each except clause returns (False, text), TimeoutExpired after
\* process.kill().  raised says whether an exception leaves run_command.
run_command(outcome) ==
    CASE outcome = "exit_0" ->
           [success |-> TRUE, output |-> "stdout+stderr", killed |-> FALSE, raised |-> FALSE]
      [] outcome = "exit_nonzero" ->
           [success |-> FALSE, output |-> "stdout+stderr", killed |-> FALSE, raised |-> FALSE]
      [] outcome = "timeout" ->
           [success |-> FALSE, output |-> "Command timed out", killed |-> TRUE, raised |-> FALSE]
      [] outcome = "not_found" ->
           [success |-> FALSE, output |-> "Failed to run command", killed |-> FALSE, raised |-> FALSE]
      [] outcome = "error" ->
           [success |-> FALSE, output |-> "Failed to run command", killed |-> FALSE, raised |-> FALSE]

\* The ways a subprocess ends for which run_command reports no success.
Failures == {outcome \in SubprocessOutcomes : ~run_command(outcome).success}

\* timeout=None, the default of run_command's parameter: communicate() then
\* waits for the subprocess without limit.
NoTimeout == 0

\* The timeout, in seconds, each call site of run_command passes.
TimeoutOf ==
    "gui_curl_ifconfig" :> 10 @@
    "gui_curl_icanhazip" :> 10 @@
    "gui_hostname_I" :> 10 @@
    "csr_lsb_release_is" :> 30 @@
    "csr_docker_version" :> 10 @@
    "csr_apt_install_compose" :> 120 @@
    "csr_venv_create" :> 60 @@
    "csr_pip_upgrade" :> 60 @@
    "csr_pip_install_compose" :> 120 @@
    "csr_ln_compose" :> NoTimeout @@
    "csr_curl_gpg" :> 30 @@
    "csr_lsb_release_cs" :> 10 @@
    "csr_cat_os_release" :> 10 @@
    "csr_add_apt_repository" :> 30 @@
    "csr_apt_update" :> 300 @@
    "csr_apt_install_docker" :> 300 @@
    "csr_systemctl_start" :> NoTimeout @@
    "csr_systemctl_enable" :> NoTimeout @@
    "dep_lsof" :> 10 @@
    "dep_apt_update" :> 300 @@
    "dep_apt_install" :> 600 @@
    "dep_docker_version" :> 10 @@
    "dep_apt_install_compose" :> 120 @@
    "dep_venv_create" :> 60 @@
    "dep_pip_upgrade" :> 60 @@
    "dep_pip_install_compose" :> 120 @@
    "dep_ln_compose" :> NoTimeout @@
    "dep_curl_gpg" :> 30 @@
    "dep_lsb_release_cs" :> 10 @@
    "dep_cat_os_release" :> 10 @@
    "dep_add_apt_repository" :> 30 @@
    "dep_apt_install_docker" :> 300 @@
    "dep_systemctl_start" :> NoTimeout @@
    "dep_systemctl_enable" :> NoTimeout @@
    "sh_mkdir" :> NoTimeout @@
    "sh_git_clone" :> 600 @@
    "sh_mkdir_conf_d" :> NoTimeout @@
    "sh_mkdir_certbot_conf" :> NoTimeout @@
    "sh_mkdir_certbot_www" :> NoTimeout @@
    "cs_nginx_t" :> NoTimeout @@
    "cs_systemctl_reload" :> NoTimeout @@
    "cs_certbot" :> NoTimeout @@
    "ia_compose_up" :> 300 @@
    "ia_migrate" :> 120 @@
    "ia_createsuperuser" :> 60 @@
    "ia_collectstatic" :> 60 @@
    "ws_certbot_version" :> 10 @@
    "ws_apt_update" :> 60 @@
    "ws_apt_install_certbot" :> 300 @@
    "ws_certbot" :> 180 @@
    "ws_test_f" :> NoTimeout @@
    "ws_sed" :> 10 @@
    "ws_systemctl_reload" :> 10 @@
    "rc_mkdir" :> NoTimeout @@
    "rc_probe" :> 30 @@
    "bk_mkdir" :> NoTimeout @@
    "bk_chmod" :> NoTimeout @@
    "bk_crontab_l" :> NoTimeout @@
    "bk_crontab_install" :> NoTimeout @@
    "bk_rm_cron" :> NoTimeout

\* The ways the subprocess of the command at a call site can end without
\* success: TimeoutExpired takes a timeout.
FailuresAt(site) ==
    {outcome \in Failures : outcome = "timeout" => TimeoutOf[site] # NoTimeout}

\* The commands at the call sites fs ended as how says, the others with exit
\* status 0.
Subprocesses(fs, how) == {<<site, how[site]>> : site \in fs}

(***************************************************************************)
(* Steps shared by the actions.                                            *)
(***************************************************************************)
\* The process ends with an exit status.
Exit(code) ==
    /\ pc' = "exited"
    /\ exit_code' = code

\* An exception no handler catches leaves install(), run() and main: the
\* interpreter prints the traceback and exits with status 1.
Uncaught ==
    /\ Exit(1)
    /\ result' = "raised"

\* The run makes n more deviations.
Spend(n) ==
    /\ budget >= n
    /\ budget' = budget - n

\* The operator types line where the nominal lines are those of nominal.
Typing(line, nominal) == Spend(IF line \in nominal THEN 0 ELSE 1)

\* n commands fail or file operations raise.
Faults(n) == Spend(n)

(***************************************************************************)
(* HorillaInstaller.__init__, after the field assignments: the SIGINT      *)
(* handler, the root check, load_saved_config.                             *)
(***************************************************************************)
\* The root check of __init__: whether the constructor goes on.
InitRootCheckPasses(euid_root, skip_root_check) == euid_root

Construct ==
    /\ pc = "init"
    /\ sigint' = TRUE
    /\ IF InitRootCheckPasses(host.euid_root, self.skip_root_check)
       THEN /\ self' = load_saved_config(self, saved)
            /\ pc' = "get_user_inputs"
            /\ UNCHANGED exit_code
       ELSE /\ Exit(1)
            /\ UNCHANGED self
    /\ UNCHANGED <<cmdline, host, saved, step, cmds, failed, subprocess, writes, files, crontab,
                   prompts, steps, result, budget>>

(***************************************************************************)
(* get_user_inputs, one action for each read of standard input.            *)
(***************************************************************************)
\* The server address get_user_inputs detects: the commands it runs (the
\* first that answers ends the search) and the address it ends with.
ServerIpOutcomes ==
    { [cmds |-> <<"gui_curl_ifconfig">>, failed |-> {}, ip |-> "203.0.113.7"],
      [cmds |-> <<"gui_curl_ifconfig", "gui_curl_icanhazip">>,
       failed |-> {"gui_curl_ifconfig"}, ip |-> "203.0.113.7"],
      [cmds |-> <<"gui_curl_ifconfig", "gui_curl_icanhazip", "gui_hostname_I">>,
       failed |-> {"gui_curl_ifconfig", "gui_curl_icanhazip"}, ip |-> "203.0.113.7"],
      [cmds |-> <<"gui_curl_ifconfig", "gui_curl_icanhazip", "gui_hostname_I">>,
       failed |-> {"gui_curl_ifconfig", "gui_curl_icanhazip", "gui_hostname_I"},
       ip |-> "127.0.0.1"] }

\* default_domain = f"horilla.{server_ip}.nip.io"
DefaultDomain(server_ip) == Intern(Chars("horilla.") \o Chars(server_ip) \o NIP_IO)

\* get_user_inputs up to its first prompt.
DetectServerIp ==
    /\ pc = "get_user_inputs"
    /\ \E o \in ServerIpOutcomes :
          /\ Faults(Cardinality(o.failed))
          /\ \E how \in [o.failed -> Failures] :
                /\ \A site \in o.failed : how[site] \in FailuresAt(site)
                /\ subprocess' = subprocess \cup Subprocesses(o.failed, how)
          /\ cmds' = cmds \o o.cmds
          /\ failed' = failed \cup o.failed
          /\ self' = [self EXCEPT !.domain = Or(@, DefaultDomain(o.ip))]
    /\ pc' = "ask_domain"
    /\ UNCHANGED <<cmdline, host, saved, step, writes, files, crontab, prompts, steps,
                   result, exit_code, sigint>>

\* What input() reads when standard input is at its end.
EndOfFile == "<EOF>"

\* input() finds standard input at its end: EOFError, which nothing catches.
EndOfInput(site) ==
    /\ prompts' = prompts \cup {<<site, EndOfFile>>}
    /\ Uncaught
    /\ UNCHANGED <<cmdline, host, saved, self, step, cmds, failed, subprocess, writes, files, crontab,
                   steps, sigint, budget>>

\* What a prompt leaves alone.
PromptFrame == UNCHANGED <<cmdline, host, saved, step, cmds, failed, subprocess, writes, files, crontab,
                           steps, result, exit_code, sigint>>

AskDomain ==
    /\ pc = "ask_domain"
    /\ \/ \E line \in DomainLines :
             LET domain == Or(line, self.domain)
             IN /\ Typing(line, {l \in DomainLines : l = "" \/ validate_domain(l)})
                /\ prompts' = prompts \cup {<<"domain", line>>}
                /\ IF validate_domain(domain)
                   THEN self' = [self EXCEPT !.domain = domain] /\ pc' = "ask_email"
                   ELSE UNCHANGED <<self, pc>>
                /\ PromptFrame
       \/ EndOfInput("domain")

AskEmail ==
    /\ pc = "ask_email"
    /\ \/ \E line \in EmailLines :
             LET email == Or(line, self.email)
             IN /\ Typing(line, {""})
                /\ prompts' = prompts \cup {<<"email", line>>}
                /\ IF validate_email(email)
                   THEN self' = [self EXCEPT !.email = email] /\ pc' = "ask_admin_username"
                   ELSE UNCHANGED <<self, pc>>
                /\ PromptFrame
       \/ EndOfInput("email")

AskAdminUsername ==
    /\ pc = "ask_admin_username"
    /\ \/ \E line \in AdminUsernameLines :
             /\ Typing(line, {""})
             /\ prompts' = prompts \cup {<<"admin_username", line>>}
             /\ self' = [self EXCEPT !.admin_username = Or(line, @)]
             /\ pc' = "ask_admin_password"
             /\ PromptFrame
       \/ EndOfInput("admin_username")

AskAdminPassword ==
    /\ pc = "ask_admin_password"
    /\ \/ \E line \in AdminPasswordLines :
             /\ Typing(line, {""})
             /\ prompts' = prompts \cup {<<"admin_password", line>>}
             /\ self' = [self EXCEPT !.admin_password = Or(line, @)]
             /\ pc' = "ask_install_dir"
             /\ PromptFrame
       \/ EndOfInput("admin_password")

AskInstallDir ==
    /\ pc = "ask_install_dir"
    /\ \/ \E line \in InstallDirLines :
             /\ Typing(line, {""})
             /\ prompts' = prompts \cup {<<"install_dir", line>>}
             /\ self' = [self EXCEPT !.install_dir = Or(line, @)]
             /\ pc' = "ask_enable_backups"
             /\ PromptFrame
       \/ EndOfInput("install_dir")

\* enable_backups = input(...).strip().lower() or "no"
EnableBackupsAnswer(line) == Or(Intern(ToLower(Chars(line))), "no")

AskEnableBackups ==
    /\ pc = "ask_enable_backups"
    /\ \/ \E line \in EnableBackupsLines :
             LET enable == EnableBackupsAnswer(line) \in {"yes", "y", "true", "1"}
             IN /\ prompts' = prompts \cup {<<"enable_backups", line>>}
                /\ self' = [self EXCEPT !.enable_backups = enable]
                /\ pc' = IF enable THEN "ask_provider" ELSE "save_config"
                /\ PromptFrame
                /\ Typing(line, EnableBackupsLines)
       \/ EndOfInput("enable_backups")

\* The providers whose prompt asks for a region, and those asked for an endpoint.
RegionProviders ==
    {"1", "2", "4", "5", "6", "7", "10", "11", "12", "13", "14", "15", "16", "17", "19"}

EndpointProviders == {"9", "20", "22", "23", "24", "25", "36", "37", "38", "39"}

AskProvider ==
    /\ pc = "ask_provider"
    /\ \/ \E line \in ProviderLines :
             /\ prompts' = prompts \cup {<<"provider", line>>}
             /\ IF Intern(ToLower(Chars(line))) = "more"
                THEN UNCHANGED self /\ pc' = "ask_more_providers"
                ELSE self' = [self EXCEPT !.s3_provider = Or(line, "1")] /\ pc' = "ask_access_key"
             /\ PromptFrame
             /\ Typing(line, {"", "3", "9", "more"})
       \/ EndOfInput("provider")

AskMoreProviders ==
    /\ pc = "ask_more_providers"
    /\ \/ \E line \in MoreProviderLines :
             /\ prompts' = prompts \cup {<<"more_providers", line>>}
             /\ self' = [self EXCEPT !.s3_provider = Or(line, "1")]
             /\ pc' = "ask_access_key"
             /\ PromptFrame
             /\ Typing(line, MoreProviderLines)
       \/ EndOfInput("more_providers")

AskAccessKey ==
    /\ pc = "ask_access_key"
    /\ \/ \E line \in AccessKeyLines :
             /\ prompts' = prompts \cup {<<"access_key", line>>}
             /\ self' = [self EXCEPT !.s3_access_key = line]
             /\ pc' = "ask_secret_key"
             /\ PromptFrame
             /\ Typing(line, AccessKeyLines \ {""})
       \/ EndOfInput("access_key")

AskSecretKey ==
    /\ pc = "ask_secret_key"
    /\ \/ \E line \in SecretKeyLines :
             /\ prompts' = prompts \cup {<<"secret_key", line>>}
             /\ self' = [self EXCEPT !.s3_secret_key = line]
             /\ pc' = IF self.s3_provider \in RegionProviders THEN "ask_region"
                      ELSE IF self.s3_provider \in EndpointProviders THEN "ask_endpoint"
                      ELSE "ask_bucket"
             /\ PromptFrame
             /\ Typing(line, SecretKeyLines \ {""})
       \/ EndOfInput("secret_key")

\* The region loop: validate_s3_region sets self.s3_region, and the caller,
\* finding it returned True, then assigns the line as typed.
RegionAfterPrompt(region) ==
    IF validate_s3_region(region).ok THEN region ELSE validate_s3_region(region).s3_region

AskRegion ==
    /\ pc = "ask_region"
    /\ \/ \E line \in RegionLines :
             LET region == Or(line, self.s3_region)
             IN /\ prompts' = prompts \cup {<<"region", line>>}
                /\ self' = [self EXCEPT !.s3_region = RegionAfterPrompt(region)]
                /\ pc' = IF validate_s3_region(region).ok THEN "ask_bucket" ELSE pc
                /\ PromptFrame
                /\ Typing(line, {"", "Tokyo", "nowhere"})
       \/ EndOfInput("region")

AskEndpoint ==
    /\ pc = "ask_endpoint"
    /\ \/ \E line \in EndpointLines :
             /\ prompts' = prompts \cup {<<"endpoint", line>>}
             /\ self' = [self EXCEPT !.s3_region = line]
             /\ pc' = "ask_bucket"
             /\ PromptFrame
             /\ Typing(line, EndpointLines)
       \/ EndOfInput("endpoint")

AskBucket ==
    /\ pc = "ask_bucket"
    /\ \/ \E line \in BucketLines :
             /\ prompts' = prompts \cup {<<"bucket", line>>}
             /\ self' = [self EXCEPT !.s3_bucket_name = line]
             /\ pc' = "ask_frequency"
             /\ PromptFrame
             /\ Typing(line, BucketLines \ {""})
       \/ EndOfInput("bucket")

AskFrequency ==
    /\ pc = "ask_frequency"
    /\ \/ \E line \in FrequencyLines :
             /\ prompts' = prompts \cup {<<"frequency", line>>}
             /\ self' = [self EXCEPT !.backup_frequency = Or(line, "1")]
             /\ pc' = "save_config"
             /\ PromptFrame
             /\ Typing(line, {"daily"})
       \/ EndOfInput("frequency")

\* The end of get_user_inputs: save_config, return True; then install()'s
\* check of the backup settings begins.
SaveConfig ==
    /\ pc = "save_config"
    /\ saved' = save_config(self)
    /\ pc' = "validate_backup"
    /\ UNCHANGED <<cmdline, host, self, step, cmds, failed, subprocess, writes, files, crontab, prompts,
                   steps, result, exit_code, sigint, budget>>

(***************************************************************************)
(* install(): the check of the backup settings before the steps.           *)
(***************************************************************************)
\* validate_backup_settings up to its prompt: "false" when a credential or the
\* bucket is missing, else the prompt the provider calls for ("" when none).
BackupCredentialsCheck(s) ==
    IF ~Truthy(s.s3_access_key) \/ ~Truthy(s.s3_secret_key) \/ ~Truthy(s.s3_bucket_name)
    THEN "false"
    ELSE IF s.s3_provider \in RegionProviders THEN "vbs_ask_region"
    ELSE IF s.s3_provider \in EndpointProviders THEN "vbs_ask_endpoint"
    ELSE ""

\* The frequency check that ends validate_backup_settings.
BackupFrequencyAccepted(s) == s.backup_frequency \in {"daily", "weekly", "monthly"}

\* install() after validate_backup_settings returned.
AfterBackupValidation(ok) ==
    IF ok
    THEN /\ pc' = "steps"
         /\ step' = 1
         /\ UNCHANGED result
    ELSE /\ pc' = "returned"
         /\ result' = "false"
         /\ UNCHANGED step

ValidateBackupSettings ==
    /\ pc = "validate_backup"
    /\ IF ~self.enable_backups THEN AfterBackupValidation(TRUE)
       ELSE LET next == BackupCredentialsCheck(self)
            IN IF next = "false" THEN AfterBackupValidation(FALSE)
               ELSE IF next = "" THEN AfterBackupValidation(BackupFrequencyAccepted(self))
               ELSE pc' = next /\ UNCHANGED <<step, result>>
    /\ UNCHANGED <<cmdline, host, saved, self, cmds, failed, subprocess, writes, files, crontab, prompts,
                   steps, exit_code, sigint, budget>>

VbsAskRegion ==
    /\ pc = "vbs_ask_region"
    /\ \/ \E line \in RegionLines :
             LET region == Or(line, self.s3_region)
                 s2 == [self EXCEPT !.s3_region = RegionAfterPrompt(region)]
             IN /\ prompts' = prompts \cup {<<"vbs_region", line>>}
                /\ self' = s2
                /\ IF validate_s3_region(region).ok
                   THEN AfterBackupValidation(BackupFrequencyAccepted(s2))
                   ELSE UNCHANGED <<pc, step, result>>
                /\ Typing(line, {""})
                /\ UNCHANGED <<cmdline, host, saved, cmds, failed, subprocess, writes, files, crontab, steps,
                               exit_code, sigint>>
       \/ EndOfInput("vbs_region")

VbsAskEndpoint ==
    /\ pc = "vbs_ask_endpoint"
    /\ \/ \E line \in EndpointLines :
             LET s2 == [self EXCEPT !.s3_region = line]
             IN /\ prompts' = prompts \cup {<<"vbs_endpoint", line>>}
                /\ self' = s2
                /\ AfterBackupValidation(BackupFrequencyAccepted(s2))
                /\ UNCHANGED <<cmdline, host, saved, cmds, failed, subprocess, writes, files, crontab, steps,
                               exit_code, sigint, budget>>
       \/ EndOfInput("vbs_endpoint")

(***************************************************************************)
(* The phases.  Each phase operator gives the set of ways the phase can    *)
(* run on the installer's fields s: the commands it runs in order (cmds),  *)
(* those among them that failed and whose failure the model records        *)
(* (failed), the artifacts it writes (writes), how many file operations    *)
(* raised (raised) and what it returns (ret: "true", "false", or "raised"  *)
(* when an exception leaves it).  run_command itself never raises: it      *)
(* returns (False, text) for a failed, timed out or missing command.       *)
(***************************************************************************)
Outcome(c, f, w, r, ret) ==
    [cmds |-> c, failed |-> f, writes |-> w, raised |-> r, ret |-> ret, crontab |-> <<>>]

\* The sites of cs that failed, given which sites succeed in o.
FailedOf(cs, o) == {cs[i] : i \in {j \in 1..Len(cs) : cs[j] \in DOMAIN o /\ ~o[cs[j]]}}

\* The Docker check and installation that check_system_requirements and
\* install_dependencies both hold; n names the call sites, o says which of
\* the commands it branches on succeed.
DockerSetupCmds(n, o) ==
    <<n.docker_version>>
    \o (IF o[n.docker_version] THEN <<>>
        ELSE <<n.apt_install_compose>>
             \o (IF o[n.apt_install_compose] THEN <<>>
                 ELSE <<n.venv_create, n.pip_upgrade, n.pip_install_compose, n.ln_compose>>)
             \o <<n.curl_gpg, n.lsb_release_cs>>
             \o (IF o[n.lsb_release_cs] THEN <<>> ELSE <<n.cat_os_release>>)
             \o <<n.add_apt_repository, n.apt_update, n.apt_install_docker,
                  n.systemctl_start, n.systemctl_enable>>)

CsrSites ==
    [docker_version |-> "csr_docker_version", apt_install_compose |-> "csr_apt_install_compose",
     venv_create |-> "csr_venv_create", pip_upgrade |-> "csr_pip_upgrade",
     pip_install_compose |-> "csr_pip_install_compose", ln_compose |-> "csr_ln_compose",
     curl_gpg |-> "csr_curl_gpg", lsb_release_cs |-> "csr_lsb_release_cs",
     cat_os_release |-> "csr_cat_os_release", add_apt_repository |-> "csr_add_apt_repository",
     apt_update |-> "csr_apt_update", apt_install_docker |-> "csr_apt_install_docker",
     systemctl_start |-> "csr_systemctl_start", systemctl_enable |-> "csr_systemctl_enable"]

DepSites ==
    [docker_version |-> "dep_docker_version", apt_install_compose |-> "dep_apt_install_compose",
     venv_create |-> "dep_venv_create", pip_upgrade |-> "dep_pip_upgrade",
     pip_install_compose |-> "dep_pip_install_compose", ln_compose |-> "dep_ln_compose",
     curl_gpg |-> "dep_curl_gpg", lsb_release_cs |-> "dep_lsb_release_cs",
     cat_os_release |-> "dep_cat_os_release", add_apt_repository |-> "dep_add_apt_repository",
     apt_update |-> "dep_apt_update", apt_install_docker |-> "dep_apt_install_docker",
     systemctl_start |-> "dep_systemctl_start", systemctl_enable |-> "dep_systemctl_enable"]

\* The commands of the Docker block whose exit status the model draws.
DockerDrawn(n) ==
    {n.docker_version, n.apt_install_compose, n.lsb_release_cs, n.apt_install_docker}

\* [1/8] check_system_requirements
check_system_requirements(s, euid_root) ==
    IF ~euid_root /\ ~s.skip_root_check
    THEN {Outcome(<<>>, {}, <<>>, 0, "false")}
    ELSE { LET distro == <<"csr_lsb_release_is">>
               docker == DockerSetupCmds(CsrSites, o)
           IN IF ~o["csr_lsb_release_is"] /\ ~s.force_continue
              THEN Outcome(distro, FailedOf(distro, o), <<>>, 0, "false")
              ELSE Outcome(distro \o docker, FailedOf(distro \o docker, o), <<>>, 0, "true")
           : o \in [{"csr_lsb_release_is"} \cup DockerDrawn(CsrSites) -> BOOLEAN] }

\* An install_dependencies whose lock probe let every run through.
LockProbeAlwaysLetsThrough(s, lsof_success) == TRUE

\* Whether install_dependencies goes on after its lock probe.  The probe's
\* result (lsof_success: lsof found the lock file open) is not read and
\* run_command raises nothing, so the "locked" branch is taken whatever lsof
\* found.
LockProbeLetsThrough(s, lsof_success) == s.force_continue

\* [2/8] install_dependencies
install_dependencies(s) ==
    { LET probe == <<"dep_lsof">>
          cs == probe \o <<"dep_apt_update", "dep_apt_install">>
                \o DockerSetupCmds(DepSites, o)
      IN IF ~LockProbeLetsThrough(s, o["dep_lsof"])
         THEN Outcome(probe, FailedOf(probe, o), <<>>, 0, "false")
         ELSE Outcome(cs, FailedOf(cs, o), <<>>, 0, "true")
      : o \in [{"dep_lsof", "dep_apt_install"} \cup DockerDrawn(DepSites) -> BOOLEAN] }

\* provider_map of configure_rclone: the rclone backend of each selector.
provider_map ==
    "1" :> "s3" @@ "2" :> "s3" @@ "3" :> "b2" @@ "4" :> "s3" @@
    "5" :> "s3" @@ "6" :> "s3" @@ "7" :> "s3" @@ "8" :> "azureblob" @@
    "9" :> "swift" @@ "10" :> "s3" @@ "11" :> "s3" @@ "12" :> "s3" @@
    "13" :> "s3" @@ "14" :> "s3" @@ "15" :> "s3" @@ "16" :> "s3" @@
    "17" :> "s3" @@ "18" :> "storj" @@ "19" :> "s3" @@ "20" :> "hdfs" @@
    "21" :> "local" @@ "22" :> "sftp" @@ "23" :> "ftp" @@ "24" :> "http" @@
    "25" :> "webdav" @@ "26" :> "onedrive" @@ "27" :> "drive" @@ "28" :> "dropbox" @@
    "29" :> "pcloud" @@ "30" :> "box" @@ "31" :> "mega" @@ "32" :> "protondrive" @@
    "33" :> "jottacloud" @@ "34" :> "koofr" @@ "35" :> "yandex" @@ "36" :> "webdav" @@
    "37" :> "webdav" @@ "38" :> "webdav" @@ "39" :> "smb" @@ "40" :> "s3" @@
    "41" :> "s3"

\* The "provider = ..." label of each selector the s3 branch names.
S3ProviderLabel ==
    "1" :> "AWS" @@
    "2" :> "Wasabi" @@
    "4" :> "DigitalOcean" @@
    "5" :> "Cloudflare" @@
    "6" :> "GoogleCloud" @@
    "9" :> "Minio" @@
    "10" :> "Alibaba" @@
    "11" :> "IBMCOS" @@
    "12" :> "HuaweiOBS" @@
    "13" :> "TencentCOS" @@
    "14" :> "Oracle" @@
    "15" :> "Linode" @@
    "16" :> "Scaleway" @@
    "18" :> "Qiniu" @@
    "39" :> "Ceph"

\* The text around the region in the "endpoint = ..." line of each selector
\* the s3 branch gives one.
S3EndpointShape ==
    "2" :> <<"s3.", ".wasabisys.com">> @@
    "4" :> <<"", ".digitaloceanspaces.com">> @@
    "5" :> <<"", ".r2.cloudflarestorage.com">> @@
    "9" :> <<"", "">> @@
    "10" :> <<"oss-", ".aliyuncs.com">> @@
    "11" :> <<"s3.", ".cloud-object-storage.appdomain.cloud">> @@
    "12" :> <<"obs.", ".myhuaweicloud.com">> @@
    "13" :> <<"cos.", ".myqcloud.com">> @@
    "14" :> <<"", ".storage.oracle.com">> @@
    "15" :> <<"", ".linodeobjects.com">> @@
    "16" :> <<"s3.", ".scw.cloud">> @@
    "18" :> <<"s3-", ".qiniucs.com">> @@
    "39" :> <<"", "">> @@
    "40" :> <<"", "">>

\* One line "key = pre{param}post" of rclone.conf; val is the value of the
\* installer field param ("" and "" for a line that embeds none).
Line(key, pre, param, val, post) ==
    [key |-> key, pre |-> pre, param |-> param, val |-> val, post |-> post]

Literal(key, text) == Line(key, text, "", "", "")

Field(key, param, val) == Line(key, "", param, val, "")

\* provider_type = provider_map.get(self.s3_provider, "s3")
ProviderType(s) ==
    IF s.s3_provider \in DOMAIN provider_map THEN provider_map[s.s3_provider] ELSE "s3"

\* config_content of configure_rclone, line by line after "[s3backup]".
RcloneConfig(s) ==
    LET p == s.s3_provider
        type == ProviderType(s)
        access(key) == Field(key, "s3_access_key", s.s3_access_key)
        secret(key) == Field(key, "s3_secret_key", s.s3_secret_key)
        region(key) == Field(key, "s3_region", s.s3_region)
    IN <<Literal("type", type)>> \o
       (CASE type = "s3" ->
               (IF p \in DOMAIN S3ProviderLabel
                THEN <<Literal("provider", S3ProviderLabel[p])>> ELSE <<>>)
               \o (IF p \in DOMAIN S3EndpointShape
                   THEN <<Line("endpoint", S3EndpointShape[p][1], "s3_region", s.s3_region,
                               S3EndpointShape[p][2])>>
                   ELSE <<>>)
               \o <<access("access_key_id"), secret("secret_access_key")>>
               \o (IF p \in {"1", "6"} THEN <<region("region")>> ELSE <<>>)
          [] type \in {"b2", "azureblob"} -> <<access("account"), secret("key")>>
          [] type = "swift" -> <<access("user"), secret("key"), region("auth")>>
          [] type = "storj" -> <<access("access_grant")>>
          [] type \in {"sftp", "ftp"} -> <<region("host"), access("user"), secret("pass")>>
          [] type = "webdav" ->
               <<region("url"), access("user"), secret("pass")>>
               \o (IF p = "35" THEN <<Literal("vendor", "nextcloud")>>
                   ELSE IF p = "36" THEN <<Literal("vendor", "owncloud")>>
                   ELSE IF p = "37" THEN <<Literal("vendor", "other")>>
                   ELSE <<>>)
          [] type = "smb" ->
               <<region("host"), access("user"), secret("pass"), Literal("domain", "WORKGROUP")>>
          [] type = "hdfs" -> <<region("namenode")>>
          [] type = "local" -> <<region("path")>>
          [] type \in {"onedrive", "drive", "dropbox", "box", "pcloud", "mega",
                       "protondrive", "jottacloud", "koofr", "yandex"} -> <<access("token")>>
          [] OTHER -> <<>>)

\* The backends whose connection configure_rclone probes.
ProbedTypes ==
    {"s3", "b2", "azureblob", "swift", "sftp", "ftp", "webdav", "smb", "hdfs", "local"}

\* An artifact written: its name and what it holds.
Write(artifact, content) == [artifact |-> artifact, content |-> content]

\* The .env file setup_horilla renders.
SetupEnv(s) ==
    [by |-> "setup_horilla",
     allowed_hosts |-> <<s.domain, "localhost", "127.0.0.1">>,
     secret_key |-> "django-insecure-{secrets.token_urlsafe(32)}"]

\* An environment file that admits only the local names.
SettingsEnvLocalOnly(s) ==
    [by |-> "configure_settings",
     allowed_hosts |-> <<"localhost", "127.0.0.1">>,
     secret_key |-> "django-insecure-h-gx@tn3=o4a7z^&)sgd3pd4ov0$d2s-wj)n+_r)a=@q^7+r6n"]

\* The .env file configure_settings renders.
SettingsEnv(s) ==
    [by |-> "configure_settings",
     allowed_hosts |-> <<"localhost", "127.0.0.1", s.domain>>,
     secret_key |-> "django-insecure-h-gx@tn3=o4a7z^&)sgd3pd4ov0$d2s-wj)n+_r)a=@q^7+r6n"]

\* [3/8] setup_horilla.  w says which of its four file writes succeed; one
\* that raises ends the phase with False unless force_continue is set.
setup_horilla(s) ==
    { LET fc == s.force_continue
          head == <<"sh_mkdir", "sh_git_clone">>
          dirs == <<"sh_mkdir_conf_d", "sh_mkdir_certbot_conf", "sh_mkdir_certbot_www">>
          wr(a, c) == IF w[a] THEN <<Write(a, c)>> ELSE <<>>
          w1 == wr("env", SetupEnv(s))
          w2 == w1 \o wr("compose", [by |-> "setup_horilla"])
          w3 == w2 \o wr("dockerfile", [by |-> "setup_horilla"])
          w4 == w3 \o wr("app_conf", [by |-> "setup_horilla", server_name |-> s.domain])
          f == FailedOf(head, o)
          n(as) == Cardinality({a \in as : ~w[a]})
      IN IF ~fc /\ ~w["env"] THEN Outcome(head, f, w1, 1, "false")
         ELSE IF ~fc /\ ~w["compose"] THEN Outcome(head, f, w2, 1, "false")
         ELSE IF ~fc /\ ~w["dockerfile"] THEN Outcome(head, f, w3, 1, "false")
         ELSE IF ~fc /\ ~w["app_conf"] THEN Outcome(head \o dirs, f, w4, 1, "false")
         ELSE Outcome(head \o dirs, f, w4, n({"env", "compose", "dockerfile", "app_conf"}), "true")
      : o \in [{"sh_git_clone"} -> BOOLEAN],
        w \in [{"env", "compose", "dockerfile", "app_conf"} -> BOOLEAN] }

\* domain.endswith('.nip.io')
IsNipIo(domain) == EndsWith(Chars(domain), NIP_IO)

\* Whether configure_settings runs certbot for the domain.
SettingsIssuesCertificate(s) == ~IsNipIo(s.domain)

\* [4/8] configure_settings.  Its file operations stand in no try block: one
\* that raises leaves the phase as an exception.  at is the operation that
\* raises (5: none).  Its two prompts are not reached: get_user_inputs leaves
\* a validated, hence non-empty, domain and email.
configure_settings(s) ==
    { LET all == <<Write("env", SettingsEnv(s)),
                   Write("compose", [by |-> "configure_settings"]),
                   Write("nginx_site", [by |-> "configure_settings", server_name |-> s.domain])>>
          tail == <<"cs_nginx_t", "cs_systemctl_reload">>
                  \o (IF SettingsIssuesCertificate(s) THEN <<"cs_certbot">> ELSE <<>>)
      IN IF at <= 3 THEN Outcome(<<>>, {}, SubSeq(all, 1, at - 1), 1, "raised")
         ELSE IF at = 4 THEN Outcome(<<>>, {}, all, 1, "raised")
         ELSE Outcome(tail, {}, all, 0, "true")
      : at \in 1..5 }

\* [5/8] initialize_application.  chdir says whether os.chdir succeeds; o
\* which commands do; exists whether a failed createsuperuser reported that
\* the user already exists.
initialize_application(s) ==
    { LET fc == s.force_continue
          up == <<"ia_compose_up">>
          mig == up \o <<"ia_migrate">>
          su == mig \o <<"ia_createsuperuser">>
          all == su \o <<"ia_collectstatic">>
      IN IF ~chdir THEN Outcome(<<>>, {}, <<>>, 1, "false")
         ELSE IF ~o["ia_compose_up"] /\ ~fc THEN Outcome(up, FailedOf(up, o), <<>>, 0, "false")
         ELSE IF ~o["ia_migrate"] /\ ~fc THEN Outcome(mig, FailedOf(mig, o), <<>>, 0, "false")
         ELSE IF ~o["ia_createsuperuser"] /\ ~exists /\ ~fc
              THEN Outcome(su, FailedOf(su, o), <<>>, 0, "false")
         ELSE IF ~o["ia_collectstatic"] /\ ~fc
              THEN Outcome(all, FailedOf(all, o), <<>>, 0, "false")
         ELSE Outcome(all, FailedOf(all, o), <<>>, 0, "true")
      : chdir \in BOOLEAN, exists \in BOOLEAN,
        o \in [{"ia_compose_up", "ia_migrate", "ia_createsuperuser", "ia_collectstatic"}
               -> BOOLEAN] }

\* Whether configure_web_server sets up SSL.
WebServerSetsUpSsl(s) == ~s.force_no_ssl

\* [6/8] configure_web_server
configure_web_server(s) ==
    IF ~WebServerSetsUpSsl(s) THEN {Outcome(<<>>, {}, <<>>, 0, "true")}
    ELSE { LET cs == <<"ws_certbot_version">>
                     \o (IF o["ws_certbot_version"] THEN <<>>
                         ELSE <<"ws_apt_update", "ws_apt_install_certbot">>)
                     \o <<"ws_certbot">>
                     \o (IF ~o["ws_certbot"] THEN <<>>
                         ELSE <<"ws_test_f">>
                              \o (IF o["ws_test_f"] THEN <<"ws_sed", "ws_systemctl_reload">>
                                  ELSE <<>>))
           IN Outcome(cs, FailedOf(cs, o), <<>>, 0, "true")
           : o \in [{"ws_certbot_version", "ws_certbot", "ws_test_f"} -> BOOLEAN] }

\* configure_rclone: wrote says whether rclone.conf could be written, probe
\* whether the connectivity probe succeeds.
configure_rclone(s) ==
    { LET conf == <<Write("rclone_conf", RcloneConfig(s))>>
          cs == <<"rc_mkdir">> \o (IF ProviderType(s) \in ProbedTypes THEN <<"rc_probe">> ELSE <<>>)
      IN IF ~wrote
         THEN Outcome(<<"rc_mkdir">>, {}, <<>>, 1, IF s.force_continue THEN "true" ELSE "false")
         ELSE Outcome(cs, FailedOf(cs, [rc_probe |-> probe]), conf, 0,
                      IF "rc_probe" \in FailedOf(cs, [rc_probe |-> probe]) /\ ~s.force_continue
                      THEN "false" ELSE "true")
      : wrote \in BOOLEAN, probe \in BOOLEAN }

\* cron_schedule.get(str(self.backup_frequency), "0 2 * * *")
CronSchedule(frequency) ==
    CASE frequency = "1" -> "0 2 * * *"
      [] frequency = "2" -> "0 2 * * 0"
      [] frequency = "3" -> "0 2 1 * *"
      [] OTHER -> "0 2 * * *"

\* What configure_backup_system does with what configure_rclone returned.
AfterRclone(rclone_ret) == TRUE

\* backup_script_path = f"{backup_dir}/backup.sh", backup_dir being
\* f"{self.install_dir}/backups"
BackupScriptPath(s) == Chars(s.install_dir) \o Chars("/backups/backup.sh")

\* cron_line = f"{schedule} {backup_script_path} >> {backup_dir}/backup.log 2>&1"
CronLine(s, schedule) ==
    Chars(schedule) \o <<" ">> \o BackupScriptPath(s) \o Chars(" >> ")
        \o Chars(s.install_dir) \o Chars("/backups/backup.log 2>&1")

BlankLine == <<>>

\* What "crontab -l 2>/dev/null || echo ''" can print, line by line: nothing
\* but the empty line of echo when root has no crontab; another job; another
\* job and the job an earlier execution registered for the same install
\* directory; the backup job of an installation under /data whose path ends
\* like this one's.
ExistingCrontabs(s) ==
    LET other == Chars("0 5 * * * /usr/local/bin/report.sh")
        earlier == CronLine(s, "0 2 1 * *")
        elsewhere == Chars("0 3 * * * /data") \o BackupScriptPath(s)
    IN { <<BlankLine>>,
         <<other>>,
         <<other, BlankLine, earlier>>,
         <<elsewhere, other>> }

\* backup_script_path not in line
KeptByFilter(line, path) == FindFirst(line, path) = 0

\* The lines of /tmp/horilla_cron: the existing crontab, without the lines
\* that hold backup_script_path when there are any, then cron_line.
CronFileLines(s, existing) ==
    LET path == BackupScriptPath(s)
        Keep(line) == KeptByFilter(line, path)
        filtered == SelectSeq(existing, Keep)
    IN (IF \E k \in 1..Len(existing) : FindFirst(existing[k], path) # 0
        THEN (IF filtered = <<>> THEN <<BlankLine>> ELSE filtered)
        ELSE existing \o <<BlankLine>>)
       \o <<CronLine(s, CronSchedule(s.backup_frequency))>>

\* [7/8] configure_backup_system.  at is the file operation that raises
\* (1: the backup script, 2: the cron file, 3: none); existing is what
\* crontab -l printed, installs whether "crontab /tmp/horilla_cron" succeeded.
configure_backup_system(s) ==
    IF ~s.enable_backups THEN {Outcome(<<>>, {}, <<>>, 0, "true")}
    ELSE { LET fc == s.force_continue
               script == <<Write("backup_script",
                                 [install_dir |-> s.install_dir,
                                  bucket_name |-> s.s3_bucket_name,
                                  passphrase |-> "secrets.token_hex(16)"])>>
               cron == <<Write("cron_file",
                               [schedule |-> CronSchedule(s.backup_frequency),
                                install_dir |-> s.install_dir,
                                lines |-> CronFileLines(s, existing)])>>
               fl == IF installs THEN {} ELSE {"bk_crontab_install"}
               left == IF installs THEN CronFileLines(s, existing) ELSE existing
               c1 == <<"bk_mkdir">> \o rc.cmds
               c2 == c1 \o <<"bk_chmod", "bk_crontab_l">>
               c3 == c2 \o <<"bk_crontab_install", "bk_rm_cron">>
               caught == IF fc THEN "true" ELSE "false"
           IN IF ~AfterRclone(rc.ret = "true")
              THEN Outcome(c1, rc.failed, rc.writes, rc.raised, "false")
              ELSE IF at = 1
              THEN Outcome(c1, rc.failed, rc.writes, rc.raised + 1, caught)
              ELSE IF at = 2
              THEN Outcome(c2, rc.failed, rc.writes \o script, rc.raised + 1, caught)
              ELSE [Outcome(c3, rc.failed \cup fl, rc.writes \o script \o cron, rc.raised, "true")
                       EXCEPT !.crontab = <<existing, left>>]
           : rc \in configure_rclone(s), at \in 1..3,
             existing \in ExistingCrontabs(s), installs \in BOOLEAN }

(***************************************************************************)
(* install(): the loop over the steps, and the way out through run() and   *)
(* main.                                                                   *)
(***************************************************************************)
\* The steps of install(), in list order.
StepNames ==
    <<"check_system_requirements", "install_dependencies", "setup_horilla",
      "configure_settings", "initialize_application", "configure_web_server",
      "configure_backup_system">>

\* A loop that went on whatever step_func() returned.
StepContinuesWhateverReturned(ret) == TRUE

\* The loop's test: it goes on to the next step when step_func() was true.
StepContinues(ret) == ret = "true"

\* The loop after step i returned ret (or raised).
AfterStep(i, ret) ==
    IF ret = "raised" THEN Uncaught /\ UNCHANGED step
    ELSE IF ~StepContinues(ret)
    THEN pc' = "returned" /\ result' = "false" /\ UNCHANGED <<step, exit_code>>
    ELSE IF i = Len(StepNames)
    THEN pc' = "returned" /\ result' = "true" /\ UNCHANGED <<step, exit_code>>
    ELSE step' = i + 1 /\ UNCHANGED <<pc, result, exit_code>>

RECURSIVE ApplyWrites(_, _)
ApplyWrites(fs, ws) ==
    IF ws = <<>> THEN fs
    ELSE ApplyWrites([fs EXCEPT ![Head(ws).artifact] = Append(@, Head(ws).content)], Tail(ws))

\* Step i of install(): the phase runs in one of the ways outcomes gives.
RunStep(i, outcomes) ==
    /\ pc = "steps"
    /\ step = i
    /\ \E o \in outcomes :
          /\ Faults(Cardinality(o.failed) + o.raised)
          /\ \E how \in [o.failed -> Failures] :
                /\ \A site \in o.failed : how[site] \in FailuresAt(site)
                /\ subprocess' = subprocess \cup Subprocesses(o.failed, how)
          /\ cmds' = cmds \o o.cmds
          /\ failed' = failed \cup o.failed
          /\ writes' = writes \o [k \in 1..Len(o.writes) |-> o.writes[k].artifact]
          /\ files' = ApplyWrites(files, o.writes)
          /\ crontab' = crontab \o o.crontab
          /\ steps' = Append(steps, [phase |-> StepNames[i], ret |-> o.ret])
          /\ AfterStep(i, o.ret)
    /\ UNCHANGED <<cmdline, host, saved, self, prompts, sigint>>

CheckSystemRequirements == RunStep(1, check_system_requirements(self, host.euid_root))

InstallDependencies == RunStep(2, install_dependencies(self))

SetupHorilla == RunStep(3, setup_horilla(self))

ConfigureSettings == RunStep(4, configure_settings(self))

InitializeApplication == RunStep(5, initialize_application(self))

ConfigureWebServer == RunStep(6, configure_web_server(self))

ConfigureBackupSystem == RunStep(7, configure_backup_system(self))

\* main's status: return 0 if success else 1
ExitStatus(success) == IF success THEN 0 ELSE 1

\* install() has returned: run() hands its result to main, which exits.
MainReturn ==
    /\ pc = "returned"
    /\ Exit(ExitStatus(result = "true"))
    /\ UNCHANGED <<cmdline, host, saved, self, step, cmds, failed, subprocess, writes, files, crontab,
                   prompts, steps, result, sigint, budget>>

\* The status _signal_handler exits with.
SignalHandlerStatus == 0

\* The operator interrupts the run (SIGINT), a deviation.  Once __init__ has installed
\* _signal_handler it prints a message and calls sys.exit; before that the
\* interpreter's default handling ends the process with status 130.
Interrupt ==
    /\ pc # "exited"
    /\ Spend(1)
    /\ Exit(IF sigint THEN SignalHandlerStatus ELSE 130)
    /\ UNCHANGED <<cmdline, host, saved, self, step, cmds, failed, subprocess, writes, files, crontab,
                   prompts, steps, result, sigint>>

Next ==
    \/ Construct
    \/ DetectServerIp
    \/ AskDomain
    \/ AskEmail
    \/ AskAdminUsername
    \/ AskAdminPassword
    \/ AskInstallDir
    \/ AskEnableBackups
    \/ AskProvider
    \/ AskMoreProviders
    \/ AskAccessKey
    \/ AskSecretKey
    \/ AskRegion
    \/ AskEndpoint
    \/ AskBucket
    \/ AskFrequency
    \/ SaveConfig
    \/ ValidateBackupSettings
    \/ VbsAskRegion
    \/ VbsAskEndpoint
    \/ CheckSystemRequirements
    \/ InstallDependencies
    \/ SetupHorilla
    \/ ConfigureSettings
    \/ InitializeApplication
    \/ ConfigureWebServer
    \/ ConfigureBackupSystem
    \/ MainReturn
    \/ Interrupt

Spec == Init /\ [][Next]_vars

(***************************************************************************)
(* The claims.                                                             *)
(***************************************************************************)
\* The fields __init__ assigned from the command line.
FromCommandLine == InitFields(MainArgs(cmdline, host.stdin_tty))

\* The commands of each phase that provision something (they install, fetch,
\* build, issue or connect; the probes that only look are left out) and
\* whose exit status the model draws.
ProvisioningCommands ==
    [check_system_requirements |-> {"csr_lsb_release_is", "csr_apt_install_docker"},
     install_dependencies |-> {"dep_apt_install", "dep_apt_install_docker"},
     setup_horilla |-> {"sh_git_clone"},
     configure_settings |-> {},
     initialize_application |->
         {"ia_compose_up", "ia_migrate", "ia_createsuperuser", "ia_collectstatic"},
     configure_web_server |-> {"ws_certbot"},
     configure_backup_system |-> {"rc_probe"}]

\* The commands that ask for a certificate to be issued.
CertificateIssuance == {"cs_certbot", "ws_certbot"}

\* The input() call sites that ask for each valued option.
PromptsFor ==
    [domain |-> {"domain"}, email |-> {"email"}, admin_username |-> {"admin_username"},
     admin_password |-> {"admin_password"}, install_dir |-> {"install_dir"},
     enable_backups |-> {"enable_backups"}, s3_provider |-> {"provider", "more_providers"},
     s3_access_key |-> {"access_key"}, s3_secret_key |-> {"secret_key"},
     s3_region |-> {"region", "endpoint", "vbs_region", "vbs_endpoint"},
     s3_bucket_name |-> {"bucket"}, backup_frequency |-> {"frequency"}]

\* The lines read so far at the prompts for option o.
LinesReadFor(o) == {p[2] : p \in {q \in prompts : q[1] \in PromptsFor[o]}}

\* The process ended in the root check of __init__ (the only exit with
\* status 1 that neither install() returning nor an exception causes).
RootCheckExit == pc = "exited" /\ exit_code = 1 /\ result = "none"

\* C1: without force-continue, install() invokes the phases in list order and
\* stops at the first that returns failure: a phase that returned False is the
\* last one invoked, and install() has returned False.
C1_StopsAtFirstFailure ==
    ~self.force_continue =>
        \A i \in 1..Len(steps) :
            /\ steps[i].phase = StepNames[i]
            /\ steps[i].ret = "false" =>
                  /\ i = Len(steps)
                  /\ result = "false"
                  /\ pc \in {"returned", "exited"}

\* C1's case: without force-continue the OS check of the first phase failed,
\* no other phase was invoked and the process exited with status 1.
C1_Witness ==
    /\ ~self.force_continue
    /\ "csr_lsb_release_is" \in failed
    /\ steps = <<[phase |-> "check_system_requirements", ret |-> "false"]>>
    /\ result = "false"
    /\ exit_code = 1

\* C2: with force-continue, once the steps have begun and install() is over,
\* all seven phases were invoked and install() returned success.
C2_ForceContinueCompletes ==
    (self.force_continue /\ steps # <<>> /\ result # "none") =>
        /\ Len(steps) = Len(StepNames)
        /\ result = "true"

\* C3: without force-continue, a phase in which a provisioning command failed
\* returned failure and is the last phase invoked.
C3_FailedCommandAborts ==
    ~self.force_continue =>
        \A i \in 1..Len(steps) :
            (failed \cap ProvisioningCommands[steps[i].phase] # {}) =>
                /\ steps[i].ret = "false"
                /\ i = Len(steps)

\* C4: no certificate-issuance command is executed before the containers were
\* started, the migrations run and the administrator account created.
C4_CertificateAfterApplication ==
    \A i \in 1..Len(cmds) :
        cmds[i] \in CertificateIssuance =>
            \A c \in {"ia_compose_up", "ia_migrate", "ia_createsuperuser"} :
                \E j \in 1..(i - 1) : cmds[j] = c

\* C5: an artifact is written only when the parameters it embeds have passed
\* validation: the domain validate_domain, the email validate_email, the
\* region embedded in rclone.conf the region syntax, and the credentials and
\* the bucket of the backup artifacts are non-empty.
C5_ArtifactsEmbedValidated ==
    \A a \in Artifacts :
        files[a] # <<>> =>
            /\ validate_domain(self.domain)
            /\ validate_email(self.email)
            /\ a \in {"rclone_conf", "backup_script", "cron_file"} =>
                  /\ Truthy(self.s3_access_key)
                  /\ Truthy(self.s3_secret_key)
                  /\ Truthy(self.s3_bucket_name)
            /\ a = "rclone_conf" =>
                  \A v \in 1..Len(files[a]) : \A k \in 1..Len(files[a][v]) :
                      files[a][v][k].key = "region" =>
                          MatchesRegionPattern(Chars(files[a][v][k].val))

\* C6: started with --non-interactive and every valued option given, the
\* installer reads nothing from standard input.
C6_NonInteractiveNeverPrompts ==
    ("non_interactive" \in cmdline.flags /\ cmdline.opts = AllOptions) => prompts = {}

\* C7: started with --non-interactive and no domain, the installer executes no
\* external command and does not complete an installation.
C7_MissingParameterExitsFirst ==
    ("non_interactive" \in cmdline.flags /\ "domain" \notin DOMAIN cmdline.opts) =>
        /\ cmds = <<>>
        /\ result # "true"

\* C8: a value given on the command line is not replaced by the cached file's
\* (it is the field's value when load_saved_config is over), and it is the
\* field's value once the operator has answered the prompts for it with
\* nothing but empty lines.
C8_CommandLineTakesPrecedence ==
    \A o \in DOMAIN cmdline.opts :
        /\ pc = "get_user_inputs" => self[o] = FromCommandLine[o]
        /\ LinesReadFor(o) = {""} => self[o] = FromCommandLine[o]

\* C9: a process that is not root and was not given --skip-root-check exits
\* with a failure status before any phase is invoked; one that was given
\* --skip-root-check does not end in the root check.
C9_RootCheckCanBeBypassed ==
    ~host.euid_root =>
        IF "skip_root_check" \in cmdline.flags
        THEN ~RootCheckExit
        ELSE /\ steps = <<>>
             /\ pc = "exited" => exit_code # 0

\* C10: the process exits with status 0 only when install() returned success.
C10_ZeroOnlyOnSuccess == exit_code = 0 => result = "true"

\* How the subprocess of the command at a call site ended.
EndedAs(site) ==
    IF \E p \in subprocess : p[1] = site
    THEN (CHOOSE p \in subprocess : p[1] = site)[2]
    ELSE "exit_0"

\* C11: run_command raises nothing to its caller; for every command run, the
\* success it returned is true exactly when the subprocess exited with status
\* 0 (the caller saw a failure exactly otherwise), and a subprocess that
\* outlived its timeout was killed and reported as a failure.
C11_RunCommandNeverRaises ==
    \A i \in 1..Len(cmds) :
        LET outcome == EndedAs(cmds[i])
            r == run_command(outcome)
        IN /\ ~r.raised
           /\ r.success <=> outcome = "exit_0"
           /\ cmds[i] \in failed <=> ~r.success
           /\ outcome = "timeout" => r.killed /\ ~r.success

\* C11's case: the OS check of the first phase outlived its timeout, the phase
\* saw a failed command and returned False.
C11_Witness ==
    /\ <<"csr_lsb_release_is", "timeout">> \in subprocess
    /\ "csr_lsb_release_is" \in failed
    /\ steps = <<[phase |-> "check_system_requirements", ret |-> "false"]>>

\* C12: every external command the installer has executed was run with an
\* explicit timeout.
C12_EveryCommandHasTimeout ==
    \A i \in 1..Len(cmds) : TimeoutOf[cmds[i]] # NoTimeout

\* The package installation commands of install_dependencies whose exit
\* status the model draws.
PackageInstallations == {"dep_apt_install", "dep_apt_install_compose", "dep_apt_install_docker"}

\* How many times the command at a call site has been run.
Attempts(site) == Cardinality({i \in 1..Len(cmds) : cmds[i] = site})

\* C13: a package installation command of install_dependencies that failed
\* with a non-zero exit status (as it does when the package manager's lock is
\* held) has been attempted again.
C13_LockFailureIsRetried ==
    \A site \in PackageInstallations :
        (site \in failed /\ EndedAs(site) = "exit_nonzero") => Attempts(site) > 1

\* lsof found the package manager's lock file open: the lock is held.
LockDetected == "dep_lsof" \in Range(cmds) /\ "dep_lsof" \notin failed

\* C14: in non-interactive mode with the lock detected, install_dependencies
\* goes by force_continue alone: with it the phase went on to apt-get and
\* returned True; without it the probe is the last command run, the phase
\* returned False, and install() returned False with no further phase.
C14_LockOutcomeByForceContinue ==
    (self.non_interactive /\ LockDetected) =>
        IF self.force_continue
        THEN /\ "dep_apt_update" \in Range(cmds)
             /\ steps[2] = [phase |-> "install_dependencies", ret |-> "true"]
        ELSE /\ cmds[Len(cmds)] = "dep_lsof"
             /\ PackageInstallations \cap Range(cmds) = {}
             /\ steps[Len(steps)] = [phase |-> "install_dependencies", ret |-> "false"]
             /\ result = "false"

\* C14's case: started with --non-interactive on a terminal and without
\* force-continue, the lock was detected and the process exited with status 1
\* after install_dependencies.
C14_Witness ==
    /\ self.non_interactive
    /\ ~self.force_continue
    /\ LockDetected
    /\ Len(steps) = 2
    /\ steps[2].ret = "false"
    /\ exit_code = 1

\* The default domains get_user_inputs can offer.
DefaultDomains == {DefaultDomain(o.ip) : o \in ServerIpOutcomes}

\* C15: the default domain get_user_inputs offers, of the form
\* horilla.<a>.<b>.<c>.<d>.nip.io, is accepted by validate_domain, and an
\* empty answer that accepts it ends the domain prompt.
C15_OfferedDefaultIsAccepted ==
    (self.domain \in DefaultDomains /\ <<"domain", "">> \in prompts) =>
        /\ validate_domain(self.domain)
        /\ pc # "ask_domain"

\* C16: in a run whose domain ends in .nip.io no phase executes a
\* certificate-issuance command.
C16_NipIoSkipsCertificate ==
    (steps # <<>> /\ IsNipIo(self.domain)) => CertificateIssuance \cap Range(cmds) = {}

\* The characters the spec allows in the local part of an email address.
LocalPartChars == AlNum \cup {".", "_", "%", "+", "-"}

\* C17: every line local@domain read at the email prompt whose domain
\* validate_domain accepts and whose local part is a non-empty string over
\* letters, digits and . _ % + - is accepted by validate_email.
C17_EmailOfValidDomainAccepted ==
    \A p \in prompts :
        (p[1] = "email" /\ p[2] \in EmailLines) =>
            LET parts == SplitChar(Chars(p[2]), "@")
            IN (/\ Len(parts) = 2
                /\ parts[1] # <<>>
                /\ \A i \in 1..Len(parts[1]) : parts[1][i] \in LocalPartChars
                /\ ValidateDomainChars(parts[2]))
               => validate_email(p[2])

\* The strings validate_s3_region has been called with in this run: what
\* the operator typed at a region prompt, or the region held when the line
\* was empty.
RegionPrompts == {"region", "vbs_region"}

RegionInputs ==
    {p[2] : p \in {q \in prompts : q[1] \in RegionPrompts /\ q[2] \in RegionLines \ {""}}}
        \cup IF \E site \in RegionPrompts : <<site, "">> \in prompts
             THEN {self.s3_region} \cap DOMAIN CharTable
             ELSE {}

\* C18: region validation is idempotent: for every input r the validator was
\* given, validating the region r' it left returns true, applies neither a
\* correction nor the fallback, and leaves r' in place.
C18_RegionValidationIdempotent ==
    \A r \in RegionInputs :
        LET first == validate_s3_region(r)
            again == validate_s3_region(first.s3_region)
        IN /\ again.ok
           /\ again.how \notin {"corrected", "fallback"}
           /\ again.s3_region = first.s3_region

\* An alias, a region in upper case and an unrecognized name have each been
\* entered at a region prompt.
C18_Witness ==
    /\ <<"region", "Tokyo">> \in prompts
    /\ "Tokyo" \in RegionInputs
    /\ validate_s3_region("Tokyo").how = "corrected"
    /\ pc # "ask_region"

\* C19: once the region prompt has completed, the region the installer holds
\* is the one the validator settled on for the line typed: the corrected
\* region for an alias (Tokyo gives ap-northeast-1), us-east-1 for an
\* unrecognized input; never the raw line.
C19_PromptKeepsCorrectedRegion ==
    \A line \in RegionLines \ {""} :
        (<<"region", line>> \in prompts /\ pc = "ask_bucket")
            => self.s3_region = validate_s3_region(line).s3_region

\* C20: every environment file a rendering phase (setup_horilla,
\* configure_settings) has written names the domain of the run in its
\* ALLOWED_HOSTS entry; in particular the file present after each phase does.
C20_EnvAllowsDomain ==
    \A v \in 1..Len(files["env"]) :
        /\ files["env"][v].by \in {"setup_horilla", "configure_settings"}
        /\ self.domain \in Range(files["env"][v].allowed_hosts)

\* Both rendering phases have written the environment file of a run whose
\* domain validate_domain accepts.
C20_Witness ==
    /\ Len(files["env"]) = 2
    /\ files["env"][1].by = "setup_horilla"
    /\ files["env"][2].by = "configure_settings"
    /\ validate_domain(self.domain)
    /\ files["env"][2].allowed_hosts = <<"localhost", "127.0.0.1", self.domain>>

\* The artifacts the spec calls write-once: the environment file, the compose
\* manifest, the reverse-proxy configuration and the backup script.
WriteOnceArtifacts == {"env", "compose", "nginx_site", "app_conf", "backup_script"}

\* How many times the run has written artifact a.
TimesWritten(a) == Cardinality({k \in 1..Len(writes) : writes[k] = a})

\* C21: within one run each generated artifact (environment file, compose
\* manifest, reverse-proxy configuration, backup script) is written at most
\* once.
C21_ArtifactsWrittenOnce ==
    \A a \in WriteOnceArtifacts : TimesWritten(a) <= 1

\* providers of get_s3_provider_name: the provider each selector of the menu
\* denotes.
providers ==
    "1" :> "AWS S3" @@ "2" :> "Wasabi" @@ "3" :> "Backblaze B2" @@
    "4" :> "DigitalOcean Spaces" @@ "5" :> "Other S3-compatible" @@
    "6" :> "Cloudflare R2" @@ "7" :> "Google Cloud Storage" @@
    "8" :> "Microsoft Azure Blob Storage" @@ "9" :> "OpenStack Swift" @@
    "10" :> "Minio" @@ "11" :> "Alibaba Cloud OSS" @@ "12" :> "IBM COS S3" @@
    "13" :> "Huawei OBS" @@ "14" :> "Tencent COS" @@ "15" :> "Oracle Cloud Storage" @@
    "16" :> "Linode Object Storage" @@ "17" :> "Scaleway" @@ "18" :> "Storj" @@
    "19" :> "Qiniu" @@ "20" :> "HDFS" @@ "21" :> "Local filesystem" @@
    "22" :> "SFTP" @@ "23" :> "FTP" @@ "24" :> "HTTP" @@ "25" :> "WebDAV" @@
    "26" :> "Microsoft OneDrive" @@ "27" :> "Google Drive" @@ "28" :> "Dropbox" @@
    "29" :> "pCloud" @@ "30" :> "Box" @@ "31" :> "Mega" @@ "32" :> "Proton Drive" @@
    "33" :> "Jottacloud" @@ "34" :> "Koofr" @@ "35" :> "Yandex Disk" @@
    "36" :> "Nextcloud" @@ "37" :> "ownCloud" @@ "38" :> "Seafile" @@
    "39" :> "SMB / CIFS" @@ "40" :> "Ceph" @@ "41" :> "Other S3 compatible"

\* The provider of the menu each "provider = ..." label of configure_rclone
\* is the rclone name of.
LabelProvider ==
    "AWS" :> "AWS S3" @@ "Wasabi" :> "Wasabi" @@ "DigitalOcean" :> "DigitalOcean Spaces" @@
    "Cloudflare" :> "Cloudflare R2" @@ "GoogleCloud" :> "Google Cloud Storage" @@
    "Minio" :> "Minio" @@ "Alibaba" :> "Alibaba Cloud OSS" @@ "IBMCOS" :> "IBM COS S3" @@
    "HuaweiOBS" :> "Huawei OBS" @@ "TencentCOS" :> "Tencent COS" @@
    "Oracle" :> "Oracle Cloud Storage" @@ "Linode" :> "Linode Object Storage" @@
    "Scaleway" :> "Scaleway" @@ "Qiniu" :> "Qiniu" @@ "Ceph" :> "Ceph"

\* The provider of the menu each "vendor = ..." setting of the webdav branch
\* is written for.
VendorProvider ==
    "nextcloud" :> "Nextcloud" @@ "owncloud" :> "ownCloud" @@ "other" :> "Seafile"

\* C22: the storage-client configuration block written for a provider
\* selector is the one of the provider that selector denotes in the menu: its
\* provider label and its vendor setting belong to the selected provider.
C22_ConfigBlockOfSelectedProvider ==
    \A v \in 1..Len(files["rclone_conf"]) :
        LET block == files["rclone_conf"][v]
        IN \A k \in 1..Len(block) :
              /\ block[k].key = "provider" =>
                    /\ self.s3_provider \in DOMAIN providers
                    /\ LabelProvider[block[k].pre] = providers[self.s3_provider]
              /\ block[k].key = "vendor" =>
                    /\ self.s3_provider \in DOMAIN providers
                    /\ VendorProvider[block[k].pre] = providers[self.s3_provider]

\* The prompts of validate_backup_settings, which install() calls after
\* get_user_inputs has returned.
LaterPrompts == {"vbs_region", "vbs_endpoint"}

\* C23: once get_user_inputs has returned, no later step of the run reads a
\* line from the operator.
C23_NoPromptAfterInputs ==
    \A p \in prompts : p[1] \notin LaterPrompts

\* C24: when --force-no-ssl is given, no certificate-issuance (certbot)
\* command is executed in any phase of the run.
C24_ForceNoSslSkipsCertificate ==
    ("force_no_ssl" \in cmdline.flags) => CertificateIssuance \cap Range(cmds) = {}

\* The lock probe found no process holding the package manager's lock: the
\* lsof command failed or exited non-zero.
NoLockHolder == "dep_lsof" \in Range(cmds) /\ "dep_lsof" \in failed

\* C25: when the lock probe finds no holder, install_dependencies goes on to
\* update and install packages, whether or not force-continue is set.
C25_UnlockedHostProceeds ==
    (NoLockHolder /\ Len(steps) >= 2) =>
        /\ "dep_apt_update" \in Range(cmds)
        /\ "dep_apt_install" \in Range(cmds)

\* C26: the installer's force_continue setting is true only in runs whose
\* command line gave --force-continue, whatever standard input is.
C26_ForceContinueOnlyByFlag ==
    self.force_continue => "force_continue" \in cmdline.flags

\* The frequencies of the menu: options 1, 2, 3 of get_backup_frequency_name
\* and of the frequency prompt.
frequencies == "1" :> "Daily" @@ "2" :> "Weekly" @@ "3" :> "Monthly"

\* The frequency each value names, by option number or by word.
FrequencyNamed ==
    frequencies @@ ("daily" :> "Daily" @@ "weekly" :> "Weekly" @@ "monthly" :> "Monthly")

\* The cron schedule of each frequency (the comments of cron_schedule).
ScheduleOfFrequency ==
    "Daily" :> "0 2 * * *" @@ "Weekly" :> "0 2 * * 0" @@ "Monthly" :> "0 2 1 * *"

\* install() returned failure from validate_backup_settings although the
\* credentials and the bucket are there.
AbortedOnFrequency ==
    /\ pc \in {"returned", "exited"}
    /\ steps = <<>>
    /\ result = "false"
    /\ self.enable_backups
    /\ BackupCredentialsCheck(self) # "false"

\* C27: a run with backups enabled, non-empty credentials and a frequency of
\* the menu (1, 2, 3) passes validate_backup_settings, and every schedule
\* configure_backup_system registers is the one of the frequency chosen.
C27_ChosenFrequencyIsScheduled ==
    /\ AbortedOnFrequency => self.backup_frequency \notin DOMAIN frequencies
    /\ \A v \in 1..Len(files["cron_file"]) :
          self.backup_frequency \in DOMAIN FrequencyNamed =>
              files["cron_file"][v].schedule
                  = ScheduleOfFrequency[FrequencyNamed[self.backup_frequency]]

\* A crontab line references the script at path when path stands in it as a
\* whole word, the way cron_line names the script to run.
References(line, path) ==
    \E i \in 1..(Len(line) - Len(path) + 1) :
        /\ SubSeq(line, i, i + Len(path) - 1) = path
        /\ i = 1 \/ line[i - 1] = " "
        /\ i + Len(path) - 1 = Len(line) \/ line[i + Len(path)] = " "

\* C28: after configure_backup_system has installed the crontab, the crontab
\* holds exactly one line that references the backup script, and every line
\* it held before that does not reference the backup script is still there.
C28_ScheduleRegisteredOnce ==
    (Len(crontab) = 2 /\ "bk_crontab_install" \notin failed) =>
        LET existing == crontab[1]
            after == crontab[2]
            path == BackupScriptPath(self)
        IN /\ Cardinality({k \in 1..Len(after) : References(after[k], path)}) = 1
           /\ \A k \in 1..Len(existing) :
                 ~References(existing[k], path) => existing[k] \in Range(after)

\* The environment file left in the install directory: the last one written.
EnvFileLeft == files["env"][Len(files["env"])]

\* C29: at the end of a successful run the SECRET_KEY of the environment
\* file left in the install directory is the key generated randomly during
\* the run (by setup_horilla), not a value every installation shares.
C29_SecretKeyIsGenerated ==
    (result = "true" /\ files["env"] # <<>>) =>
        EnvFileLeft.secret_key = SetupEnv(self).secret_key

\* C30: no error escapes a phase function or install(): every phase returns
\* true or false, and install() returns a boolean that main maps to the exit
\* status.
C30_NoErrorEscapes ==
    /\ result # "raised"
    /\ \A k \in 1..Len(steps) : steps[k].ret \in {"true", "false"}

====
